---- MODULE Spec2Model ----
(***************************************************************************)
(* resilientEventListener: a WebSocket subscription client that probes     *)
(* the connection with a keep-alive request and reconnects with            *)
(* exponential backoff.                                                    *)
(*                                                                         *)
(* The closure variables of resilientEventListener (ws, pingTimeout,       *)
(* keepAliveInterval, stopped, reconnectDelay) are the listener state; the *)
(* per-connect closure variable subscriptionId is kept per socket.  The    *)
(* Node timer queue is modelled by the sets of armed timers, each with the *)
(* milliseconds that remain until it is due; Advance lets time pass up to  *)
(* the next due timer.  Everything runs on the one event loop, so every    *)
(* handler is one atomic action.                                           *)
(***************************************************************************)
EXTENDS Integers, Sequences, FiniteSets, TLC

\* ---------------------------------------------------------------- bounds
\* Sockets created in one run (the first connect plus the reconnects).
MaxConn == 7
\* Callback invocations recorded in one run.
MaxCalls == 2

\* ------------------------------------------------------ program constants
DEFAULT_EXPECTED_PONG_BACK == 15000
DEFAULT_KEEP_ALIVE_CHECK_INTERVAL == 60 * 1000
\* let reconnectDelay = 1000, and the reset in ws.onopen
InitialReconnectDelay == 1000
\* Math.min(reconnectDelay * 2, 30000)
MaxReconnectDelay == 30000

NULL == 0
\* What pingTimeout and keepAliveInterval hold after an assignment of
\* setTimeout(...) or setInterval(...): a timer handle.  The timer it refers
\* to, if still armed, is the one marked held.
TimerHandle == 1
\* The JavaScript value undefined (an absent JSON field, an unassigned let).
Undefined == "undefined"
\* request.id and ping.id, as they compare (===) with a parsed id.
RequestId == "1"
PingId == "2"

Conns == 1 .. MaxConn

Min(a, b) == IF a <= b THEN a ELSE b

SetMin(S) == CHOOSE x \in S : \A y \in S : x <= y

VARIABLES
    args,               \* the ResilientEventListenerArgs that matter here
    ws,                 \* let ws: the current socket, or NULL
    pingTimeout,        \* let pingTimeout: NULL or TimerHandle
    keepAliveInterval,  \* let keepAliveInterval: NULL or the handle of an interval
    stopped,            \* let stopped
    reconnectDelay,     \* let reconnectDelay
    subscriptionId,     \* let subscriptionId of each connect() closure
    sock,               \* the state of every socket created so far
    intervalTimers,     \* armed setInterval timers
    pingTimers,         \* armed probe deadline timers
    reconnectTimers,    \* armed setTimeout(connect, reconnectDelay) timers
    peer,               \* what the remote end has received on each socket
    calls,              \* the arguments args.callback was invoked with, in order
    uncaught,           \* an exception escaped a handler
    failStreak,         \* history: reconnects scheduled since the last open
    rejected            \* history: an unexpected-response event was handled

vars == <<args, ws, pingTimeout, keepAliveInterval, stopped, reconnectDelay,
          subscriptionId, sock, intervalTimers, pingTimers, reconnectTimers,
          peer, calls, uncaught, failStreak, rejected>>

\* ----------------------------------------------------------- the sockets
\* NONE        not created yet
\* CONNECTING  new WebSocket(url) returned, handshake in progress
\* OPEN        readyState OPEN
\* CLOSING     close() was called on an open socket: frames still arrive
\* TERMINATED  terminate() destroyed an opened socket; its close event is
\*             still to be delivered
\* LOST        the remote end or the network closed an opened socket; its
\*             close event is still to be delivered
\* ABORTED     the handshake failed or was aborted; close event still to come
\* CLOSED      the close event has been delivered
SockStates ==
    {"NONE", "CONNECTING", "OPEN", "CLOSING", "TERMINATED", "LOST", "ABORTED", "CLOSED"}

WasOpened(c) == sock[c] \in {"OPEN", "CLOSING", "TERMINATED", "LOST"}

Alive(c) == sock[c] \notin {"NONE", "CLOSED"}

Closed == {c \in Conns : sock[c] = "CLOSED"}

Created == {c \in Conns : sock[c] # "NONE"}

\* ws.close(): closing handshake on an open socket, abort of a connecting one.
SockClose(s) ==
    CASE s = "CONNECTING" -> "ABORTED"
      [] s = "OPEN" -> "CLOSING"
      [] OTHER -> s

\* ws.close() where ws.terminate() is meant.
SockTerminate_Graceful(s) == SockClose(s)

\* ws.terminate(): destroys the socket at once.
SockTerminate(s) ==
    CASE s = "CONNECTING" -> "ABORTED"
      [] s \in {"OPEN", "CLOSING"} -> "TERMINATED"
      [] OTHER -> s

\* ------------------------------------------------------------ the config
\* args.keepAliveCheckInterval || DEFAULT_KEEP_ALIVE_CHECK_INTERVAL
KeepAliveCheckInterval ==
    IF args.keepAliveCheckInterval # 0 THEN args.keepAliveCheckInterval
    ELSE DEFAULT_KEEP_ALIVE_CHECK_INTERVAL

\* args.expectedPongBack || DEFAULT_EXPECTED_PONG_BACK
ExpectedPongBack ==
    IF args.expectedPongBack # 0 THEN args.expectedPongBack
    ELSE DEFAULT_EXPECTED_PONG_BACK

Args(interval, timeout, callback) ==
    [keepAliveCheckInterval |-> interval, expectedPongBack |-> timeout,
     callback |-> callback]

\* The configurations explored: both options unset (0 stands for an absent
\* option, which || replaces by the default) with and without a callback,
\* and a probe timeout below, equal to and above the keep-alive interval.
ArgsChoices ==
    { Args(0, 0, TRUE), Args(0, 0, FALSE), Args(2000, 1000, FALSE),
      Args(1000, 1000, FALSE), Args(1000, 3000, TRUE) }

\* ------------------------------------------------------------ the frames
\* A frame is event.data: its JavaScript type, whether JSON.parse accepts
\* it, and the fields of the parsed value that ws.onmessage reads.  A JSON
\* number, boolean or string is written as its text; an absent field is
\* Undefined.
Frame(type, json, id, method, result, hasParams, subscription, log) ==
    [type |-> type, json |-> json, id |-> id, method |-> method, result |-> result,
     hasParams |-> hasParams, subscription |-> subscription, log |-> log]

Obj(id, method, result, hasParams, subscription, log) ==
    Frame("string", "object", id, method, result, hasParams, subscription, log)

SubIds == {"0xA", "0xB"}

\* result fields: absent, true, a subscription id, the empty string
Results == {Undefined, "true", "", "0xA"}

\* raw logs: one of the contract's events, an event the ABI does not know,
\* a value parseLog cannot read
Logs == {"TransferLog", "UnknownLog", "MalformedLog"}

Responses ==
    {Obj(RequestId, Undefined, r, FALSE, Undefined, Undefined) : r \in Results \ {"true"}}
    \cup {Obj(PingId, Undefined, r, FALSE, Undefined, Undefined) : r \in {"true", Undefined}}
    \cup {Obj(i, Undefined, "0xA", FALSE, Undefined, Undefined) : i \in {Undefined, "3"}}

Notifications ==
    {Obj(Undefined, "eth_subscription", Undefined, TRUE, s, l) :
        s \in SubIds \cup {Undefined, ""}, l \in Logs}
    \cup {Obj(Undefined, "eth_subscription", Undefined, FALSE, Undefined, Undefined)}

OtherFrames ==
    { Frame("string", "SyntaxError", Undefined, Undefined, Undefined, FALSE, Undefined, Undefined),
      Frame("buffer", "SyntaxError", Undefined, Undefined, Undefined, FALSE, Undefined, Undefined),
      Frame("other", "object", RequestId, Undefined, "0xA", FALSE, Undefined, Undefined),
      Frame("string", "null", Undefined, Undefined, Undefined, FALSE, Undefined, Undefined),
      Frame("buffer", "object", RequestId, Undefined, "0xA", FALSE, Undefined, Undefined),
      Obj(Undefined, "eth_other", Undefined, TRUE, "0xA", "TransferLog"),
      Obj(RequestId, "eth_subscription", "", TRUE, "0xA", "TransferLog"),
      Obj(PingId, "eth_subscription", "true", TRUE, "0xA", "TransferLog") }

Frames == Responses \cup Notifications \cup OtherFrames

\* contract.interface.parseLog(logData): the decoded event, null for a log
\* of no known event, a TypeError for a value that is no log
ParseLog(log) ==
    CASE log = "TransferLog" -> "Transfer"
      [] log = "UnknownLog" -> "null"
      [] OTHER -> "TypeError"

\* ------------------------------------------------------------ the timers
\* Milliseconds until each armed timer is due.
Rems ==
    {t.rem : t \in intervalTimers} \cup {t.rem : t \in pingTimers}
        \cup {t.rem : t \in reconnectTimers}

\* ws.onclose and stop without the clearInterval.
ClearKeepAlive_Never == intervalTimers

\* clearInterval(keepAliveInterval), guarded by if (keepAliveInterval)
ClearKeepAlive ==
    IF keepAliveInterval = NULL THEN intervalTimers ELSE {t \in intervalTimers : ~t.held}

\* clearTimeout(pingTimeout), guarded by if (pingTimeout): the one timer the
\* variable refers to is disarmed; a handle of a timer that has fired or
\* was cleared before disarms nothing.
ClearPing == IF pingTimeout = NULL THEN pingTimers ELSE {t \in pingTimers : ~t.held}

NoPeer == [subscribes |-> 0, probes |-> 0]

\* ------------------------------------------------------------- the state
TypeOK ==
    /\ args \in ArgsChoices
    /\ ws \in {NULL} \cup Conns
    /\ pingTimeout \in {NULL, TimerHandle}
    /\ keepAliveInterval \in {NULL, TimerHandle}
    /\ stopped \in BOOLEAN
    /\ reconnectDelay \in Nat
    /\ subscriptionId \in [Conns -> Results]
    /\ sock \in [Conns -> SockStates]
    /\ \A t \in intervalTimers : t.conn \in Conns /\ t.rem \in Nat /\ t.held \in BOOLEAN
    /\ \A t \in pingTimers : t.conn \in Conns /\ t.rem \in Nat /\ t.held \in BOOLEAN
    /\ \A t \in reconnectTimers : t.by \in Conns /\ t.rem \in Nat /\ t.delay \in Nat
    /\ \A c \in Conns : peer[c].subscribes \in Nat /\ peer[c].probes \in Nat
    /\ calls \in Seq({"Transfer", "null"})
    /\ uncaught \in BOOLEAN
    /\ failStreak \in Nat
    /\ rejected \in BOOLEAN

\* resilientEventListener(args) up to its return: the closure variables are
\* initialised and connect() has created the first socket.
Init ==
    /\ args \in ArgsChoices
    /\ ws = 1
    /\ pingTimeout = NULL
    /\ keepAliveInterval = NULL
    /\ stopped = FALSE
    /\ reconnectDelay = InitialReconnectDelay
    /\ subscriptionId = [c \in Conns |-> Undefined]
    /\ sock = [c \in Conns |-> IF c = 1 THEN "CONNECTING" ELSE "NONE"]
    /\ intervalTimers = {}
    /\ pingTimers = {}
    /\ reconnectTimers = {}
    /\ peer = [c \in Conns |-> NoPeer]
    /\ calls = <<>>
    /\ uncaught = FALSE
    /\ failStreak = 0
    /\ rejected = FALSE

\* ---------------------------------------------------------------- connect
\* connect without the if (stopped) return.
connect_NoStoppedCheck ==
    LET c == Cardinality(Created) + 1 IN
    /\ c <= MaxConn
    /\ ws' = c
    /\ sock' = [sock EXCEPT ![c] = "CONNECTING"]
    /\ subscriptionId' = [subscriptionId EXCEPT ![c] = Undefined]

\* const connect = () => { if (stopped) return; ws = new WebSocket(url); ... }
\* The handlers it registers are the actions OnOpen, OnMessage, OnError,
\* OnClose and OnUnexpectedResponse of the new socket.
connect ==
    IF stopped
    THEN UNCHANGED <<ws, sock, subscriptionId>>
    ELSE LET c == Cardinality(Created) + 1 IN
         /\ c <= MaxConn
         /\ ws' = c
         /\ sock' = [sock EXCEPT ![c] = "CONNECTING"]
         /\ subscriptionId' = [subscriptionId EXCEPT ![c] = Undefined]

\* ------------------------------------------------------------------- stop
\* stop without stopped = true.
stop_NoFlag ==
    /\ stopped' = stopped
    /\ sock' = IF ws # NULL THEN [sock EXCEPT ![ws] = SockClose(sock[ws])] ELSE sock
    /\ ws' = NULL
    /\ intervalTimers' = ClearKeepAlive
    /\ pingTimers' = ClearPing
    /\ UNCHANGED <<args, pingTimeout, keepAliveInterval, reconnectDelay, subscriptionId,
                   reconnectTimers, peer, calls, uncaught, failStreak>>

\* stop without the if (ws): ws.close() on null throws.
stop_Unguarded ==
    /\ stopped' = TRUE
    /\ sock' = IF ws # NULL THEN [sock EXCEPT ![ws] = SockClose(sock[ws])] ELSE sock
    /\ ws' = NULL
    /\ uncaught' = (ws = NULL)
    /\ intervalTimers' = IF ws # NULL THEN ClearKeepAlive ELSE intervalTimers
    /\ pingTimers' = IF ws # NULL THEN ClearPing ELSE pingTimers
    /\ UNCHANGED <<args, pingTimeout, keepAliveInterval, reconnectDelay, subscriptionId,
                   reconnectTimers, peer, calls, failStreak>>

\* const stop = () => { stopped = true; if (ws) { ws.close(); ws = null; }
\*   if (keepAliveInterval) clearInterval(...); if (pingTimeout) clearTimeout(...) }
stop ==
    /\ stopped' = TRUE
    /\ sock' = IF ws # NULL THEN [sock EXCEPT ![ws] = SockClose(sock[ws])] ELSE sock
    /\ ws' = NULL
    /\ intervalTimers' = ClearKeepAlive
    /\ pingTimers' = ClearPing
    /\ UNCHANGED <<args, pingTimeout, keepAliveInterval, reconnectDelay, subscriptionId,
                   reconnectTimers, peer, calls, uncaught, failStreak>>

\* The owner of the handle calls stop().
Stop ==
    /\ ~uncaught
    /\ UNCHANGED rejected
    /\ stop

\* ws.on('unexpected-response', ...): the server answered the upgrade
\* request of socket c with an ordinary HTTP response; the handler calls stop().
OnUnexpectedResponse(c) ==
    /\ ~uncaught
    /\ sock[c] = "CONNECTING"
    /\ rejected' = TRUE
    /\ stop

\* An assignment to pingTimeout or keepAliveInterval overwrites the handle
\* without clearing the timer it referred to: a timer that is still armed
\* stays armed and nothing refers to it any more.
Unheld(timers) == {[t EXCEPT !.held = FALSE] : t \in timers}

\* ----------------------------------------------------------------- onopen
\* ws.onopen without the reset of reconnectDelay.
OpenDelay_NoReset(d) == d

\* reconnectDelay = 1000 of ws.onopen: the delay after an open, given the
\* delay d before it.
OpenDelay(d) == InitialReconnectDelay

\* ws.onopen of socket c: reset the backoff, send the subscribe request on
\* ws, start the keep-alive interval.
OnOpen(c) ==
    /\ ~uncaught
    /\ UNCHANGED rejected
    /\ sock[c] = "CONNECTING"
    /\ reconnectDelay' = OpenDelay(reconnectDelay)
    /\ failStreak' = 0
    /\ IF ws = NULL
       THEN \* ws!.send on null: TypeError, the rest of the handler is skipped
            /\ sock' = [sock EXCEPT ![c] = "OPEN"]
            /\ uncaught' = TRUE
            /\ UNCHANGED <<peer, keepAliveInterval, intervalTimers>>
       ELSE LET opened == [sock EXCEPT ![c] = "OPEN"] IN
            /\ sock' = opened
            /\ IF opened[ws] = "OPEN"
               THEN /\ peer' = [peer EXCEPT ![ws].subscribes = @ + 1]
                    /\ uncaught' = uncaught
                    /\ keepAliveInterval' = TimerHandle
                    /\ intervalTimers' = Unheld(intervalTimers)
                          \cup {[conn |-> c, rem |-> KeepAliveCheckInterval, held |-> TRUE]}
               ELSE \* send on a socket that is not open throws
                    /\ uncaught' = TRUE
                    /\ UNCHANGED <<peer, keepAliveInterval, intervalTimers>>
    /\ UNCHANGED <<args, ws, pingTimeout, stopped, subscriptionId, pingTimers,
                   reconnectTimers, calls>>

\* ------------------------------------------------------ keep-alive, probe
\* Timers of equal delay fire in the order they were armed, and the interval
\* is re-armed after its callback ran: a deadline armed by one tick is then
\* due before the next tick when both delays are the same.
IntervalMayFire ==
    ExpectedPongBack = KeepAliveCheckInterval => \A p \in pingTimers : p.rem # 0

\* The setInterval callback of ws.onopen fires.
KeepAliveFire(t) ==
    /\ ~uncaught
    /\ UNCHANGED rejected
    /\ t \in intervalTimers
    /\ t.rem = 0
    /\ IntervalMayFire
    /\ intervalTimers' = (intervalTimers \ {t})
            \cup {[t EXCEPT !.rem = KeepAliveCheckInterval]}
    /\ IF ws # NULL /\ sock[ws] = "OPEN"
       THEN /\ peer' = [peer EXCEPT ![ws].probes = @ + 1]
            /\ pingTimers' = Unheld(pingTimers)
                  \cup {[conn |-> ws, rem |-> ExpectedPongBack, held |-> TRUE]}
            /\ pingTimeout' = TimerHandle
       ELSE UNCHANGED <<peer, pingTimers, pingTimeout>>
    /\ UNCHANGED <<args, ws, keepAliveInterval, stopped, reconnectDelay, subscriptionId,
                   sock, reconnectTimers, calls, uncaught, failStreak>>

\* The socket the deadline callback terminates: if (ws) ws.terminate()
DeadlineTarget(t) == ws

\* The setTimeout callback armed by a keep-alive tick fires.
PingTimeoutFire(t) ==
    /\ ~uncaught
    /\ UNCHANGED rejected
    /\ t \in pingTimers
    /\ t.rem = 0
    /\ pingTimers' = pingTimers \ {t}
    /\ sock' = IF DeadlineTarget(t) # NULL
               THEN [sock EXCEPT ![DeadlineTarget(t)] = SockTerminate(@)]
               ELSE sock
    /\ UNCHANGED <<args, ws, pingTimeout, keepAliveInterval, stopped, reconnectDelay,
                   subscriptionId, intervalTimers, reconnectTimers, peer, calls,
                   uncaught, failStreak>>

\* ---------------------------------------------------------------- onclose
\* reconnectDelay * 2 without the cap.
NextDelay_NoCap(d) == d * 2

\* Math.min(reconnectDelay * 2, 30000)
NextDelay(d) == Min(d * 2, MaxReconnectDelay)

\* A reconnect only after a socket that had opened.
Reschedule_OnlyAfterOpen(c) ==
    IF ~stopped /\ sock[c] # "ABORTED"
    THEN {[by |-> c, delay |-> reconnectDelay, rem |-> reconnectDelay]}
    ELSE {}

\* ws.onclose arming a second, later reconnect next to the first.
Reschedule_Twice(c) ==
    IF ~stopped
    THEN {[by |-> c, delay |-> reconnectDelay, rem |-> reconnectDelay],
          [by |-> c, delay |-> reconnectDelay, rem |-> 2 * reconnectDelay]}
    ELSE {}

\* ws.onclose without the if (!stopped).
Reschedule_IgnoresStopped(c) ==
    {[by |-> c, delay |-> reconnectDelay, rem |-> reconnectDelay]}

\* The timers armed by ws.onclose of socket c: setTimeout(connect, reconnectDelay)
\* unless stopped.
Reschedule(c) ==
    IF ~stopped
    THEN {[by |-> c, delay |-> reconnectDelay, rem |-> reconnectDelay]}
    ELSE {}

\* ws.onclose of socket c.  No handler of a closed socket runs again, so its
\* closure (subscriptionId) and what the remote end held for it are dropped.
OnClose(c) ==
    /\ ~uncaught
    /\ UNCHANGED rejected
    /\ sock[c] \in {"CLOSING", "TERMINATED", "LOST", "ABORTED"}
    /\ sock' = [sock EXCEPT ![c] = "CLOSED"]
    /\ intervalTimers' = ClearKeepAlive
    /\ pingTimers' = ClearPing
    /\ ws' = NULL
    /\ reconnectTimers' = reconnectTimers \cup Reschedule(c)
    /\ reconnectDelay' = IF ~stopped THEN NextDelay(reconnectDelay) ELSE reconnectDelay
    /\ failStreak' = IF ~stopped THEN failStreak + 1 ELSE failStreak
    /\ peer' = [peer EXCEPT ![c] = NoPeer]
    /\ subscriptionId' = [subscriptionId EXCEPT ![c] = Undefined]
    /\ UNCHANGED <<args, pingTimeout, keepAliveInterval, stopped, calls, uncaught>>

\* The setTimeout(connect, reconnectDelay) of ws.onclose fires.
ReconnectFire(t) ==
    /\ ~uncaught
    /\ UNCHANGED rejected
    /\ t \in reconnectTimers
    /\ t.rem = 0
    /\ reconnectTimers' = reconnectTimers \ {t}
    /\ connect
    /\ UNCHANGED <<args, pingTimeout, keepAliveInterval, stopped, reconnectDelay,
                   intervalTimers, pingTimers, peer, calls, uncaught, failStreak>>

\* ---------------------------------------------------------------- onerror
\* ws.onerror: logs only.
OnError(c) ==
    /\ ~uncaught
    /\ Alive(c)
    /\ UNCHANGED vars

\* ------------------------------------------------------------ the network
\* The handshake of socket c fails (refused, reset, timed out).
ConnectFail(c) ==
    /\ ~uncaught
    /\ UNCHANGED rejected
    /\ sock[c] = "CONNECTING"
    /\ sock' = [sock EXCEPT ![c] = "ABORTED"]
    /\ UNCHANGED <<args, ws, pingTimeout, keepAliveInterval, stopped, reconnectDelay,
                   subscriptionId, intervalTimers, pingTimers, reconnectTimers, peer,
                   calls, uncaught, failStreak>>

\* The remote end or the network closes the open socket c.
Drop(c) ==
    /\ ~uncaught
    /\ UNCHANGED rejected
    /\ sock[c] \in {"OPEN", "CLOSING"}
    /\ sock' = [sock EXCEPT ![c] = "LOST"]
    /\ UNCHANGED <<args, ws, pingTimeout, keepAliveInterval, stopped, reconnectDelay,
                   subscriptionId, intervalTimers, pingTimers, reconnectTimers, peer,
                   calls, uncaught, failStreak>>

\* Time passes until the next armed timer is due.  A due timer fires before
\* time passes further.
Advance ==
    /\ ~uncaught
    /\ UNCHANGED rejected
    /\ Rems # {}
    /\ 0 \notin Rems
    /\ LET d == SetMin(Rems) IN
       /\ intervalTimers' = {[t EXCEPT !.rem = @ - d] : t \in intervalTimers}
       /\ pingTimers' = {[t EXCEPT !.rem = @ - d] : t \in pingTimers}
       /\ reconnectTimers' = {[t EXCEPT !.rem = @ - d] : t \in reconnectTimers}
    /\ UNCHANGED <<args, ws, pingTimeout, keepAliveInterval, stopped, reconnectDelay,
                   subscriptionId, sock, peer, calls, uncaught, failStreak>>

\* -------------------------------------------------------------- onmessage
\* parsedData of ws.onmessage: the try block that reads event.data.
\* "return" stands for both early returns (unexpected type, parse error).
Parsed(f) ==
    IF f.type \in {"string", "buffer"}
    THEN (IF f.json = "SyntaxError" THEN "return" ELSE f.json)
    ELSE "return"

\* The third branch without the comparison of the subscription identifiers.
SubscriptionMatches_Any(c, f) == TRUE

\* parsedData.params.subscription === subscriptionId
SubscriptionMatches(c, f) == f.subscription = subscriptionId[c]

\* The third branch reading eventLog.name without the optional chaining.
Dispatch_NameOfNull(c, f) ==
    CASE Parsed(f) = "return" -> "return"
      [] Parsed(f) = "null" -> "none"
      [] f.id = RequestId -> "subscribed"
      [] f.id = PingId /\ f.result = "true" -> "pong"
      [] f.method = "eth_subscription" ->
            (IF ~f.hasParams THEN "TypeError"
             ELSE IF ~SubscriptionMatches(c, f) THEN "none"
             ELSE IF ParseLog(f.log) \in {"TypeError", "null"} THEN "TypeError"
             ELSE "callback")
      [] OTHER -> "none"

\* The first branch taken by a response with either identifier.
Dispatch_EitherId(c, f) ==
    CASE Parsed(f) = "return" -> "return"
      [] Parsed(f) = "null" -> "none"
      [] f.id \in {RequestId, PingId} -> "subscribed"
      [] f.method = "eth_subscription" ->
            (IF ~f.hasParams THEN "TypeError"
             ELSE IF ~SubscriptionMatches(c, f) THEN "none"
             ELSE IF ParseLog(f.log) = "TypeError" THEN "TypeError"
             ELSE "callback")
      [] OTHER -> "none"

\* The branch of the if / else if chain of ws.onmessage that frame f takes on
\* socket c, and how the branch ends:
\*   "return"     early return of the try block
\*   "subscribed" parsedData?.id === request.id
\*   "pong"       parsedData?.id === ping.id && parsedData?.result === true
\*   "TypeError"  the third condition reads params.subscription of no params,
\*                or parseLog throws
\*   "callback"   the third branch ran to its end
\*   "none"       no branch
Dispatch(c, f) ==
    CASE Parsed(f) = "return" -> "return"
      [] Parsed(f) = "null" -> "none"
      [] f.id = RequestId -> "subscribed"
      [] f.id = PingId /\ f.result = "true" -> "pong"
      [] f.method = "eth_subscription" ->
            (IF ~f.hasParams THEN "TypeError"
             ELSE IF ~SubscriptionMatches(c, f) THEN "none"
             ELSE IF ParseLog(f.log) = "TypeError" THEN "TypeError"
             ELSE "callback")
      [] OTHER -> "none"

\* The callback invoked from two places for one notification.
Callback_Twice(f) ==
    IF args.callback THEN Append(Append(calls, ParseLog(f.log)), ParseLog(f.log)) ELSE calls

\* if (args.callback) args.callback(eventLog)
Callback(f) == IF args.callback THEN Append(calls, ParseLog(f.log)) ELSE calls

\* ws.onmessage of socket c receives frame f.
OnMessage(c, f) ==
    /\ ~uncaught
    /\ UNCHANGED rejected
    /\ sock[c] \in {"OPEN", "CLOSING"}
    /\ LET d == Dispatch(c, f) IN
       /\ d = "callback" /\ args.callback => Len(calls) < MaxCalls
       /\ subscriptionId' =
             IF d = "subscribed" THEN [subscriptionId EXCEPT ![c] = f.result]
             ELSE subscriptionId
       /\ pingTimers' = IF d = "pong" THEN ClearPing ELSE pingTimers
       /\ pingTimeout' = IF d = "pong" THEN NULL ELSE pingTimeout
       /\ peer' = IF d = "pong" /\ peer[c].probes > 0
                  THEN [peer EXCEPT ![c].probes = @ - 1]
                  ELSE peer
       /\ calls' = IF d = "callback" THEN Callback(f) ELSE calls
       /\ uncaught' = (d = "TypeError")
    /\ UNCHANGED <<args, ws, keepAliveInterval, stopped, reconnectDelay, sock,
                   intervalTimers, reconnectTimers, failStreak>>

\* ------------------------------------------------------ the specification
Next ==
    \/ Stop
    \/ \E c \in Conns : OnUnexpectedResponse(c)
    \/ \E c \in Conns : OnOpen(c)
    \/ \E c \in Conns, f \in Frames : OnMessage(c, f)
    \/ \E c \in Conns : OnError(c)
    \/ \E c \in Conns : OnClose(c)
    \/ \E c \in Conns : ConnectFail(c)
    \/ \E c \in Conns : Drop(c)
    \/ \E t \in intervalTimers : KeepAliveFire(t)
    \/ \E t \in pingTimers : PingTimeoutFire(t)
    \/ \E t \in reconnectTimers : ReconnectFire(t)
    \/ Advance

Spec == Init /\ [][Next]_vars

\* The event loop runs every due timer callback and lets time pass, and the
\* socket library delivers the close event of a socket that was closed,
\* terminated or lost.  What the network and the owner do is not forced.
FairSpec ==
    /\ Spec
    /\ WF_vars(Advance)
    /\ WF_vars(\E t \in intervalTimers : KeepAliveFire(t))
    /\ WF_vars(\E t \in pingTimers : PingTimeoutFire(t))
    /\ WF_vars(\E t \in reconnectTimers : ReconnectFire(t))
    /\ WF_vars(\E c \in Conns : OnClose(c))

\* ================================================================= claims
RECURSIVE Pow2(_)
Pow2(n) == IF n = 0 THEN 1 ELSE 2 * Pow2(n - 1)

\* A reconnect timer armed by this step.
NewReconnectTimers == reconnectTimers' \ reconnectTimers

\* C1: once stop() has run, no step creates a socket or makes one current,
\* and the stopped flag stays set: whichever of the reconnect timer, the
\* keep-alive interval, a probe deadline or the close event comes next.
C1_NoConnectAfterStop ==
    [][stopped => stopped' /\ Created' = Created /\ ws' = NULL]_vars

\* stop() has run while a reconnect timer was armed and a probe deadline of
\* the closed socket was still armed; the reconnect timer is now due.
C1_Witness ==
    /\ stopped
    /\ Cardinality(Created) < MaxConn
    /\ \E t \in reconnectTimers : t.rem = 0
    /\ pingTimers # {}

\* C2: while stop() has not run, the sockets created after the first are as
\* many as the close events delivered, less the reconnect that is still
\* pending, and at most one reconnect timer is pending: one connect per
\* close, never none, never two.
C2_OneReconnectPerClose ==
    ~stopped =>
        /\ Cardinality(reconnectTimers) <= 1
        /\ Cardinality(Created) - 1 = Cardinality(Closed) - Cardinality(reconnectTimers)

\* Three sockets have closed, by a failed handshake or after an open, and the
\* fourth is there.
C2_Witness ==
    /\ ~stopped
    /\ Cardinality(Closed) = 3
    /\ Cardinality(Created) = 4
    /\ reconnectTimers = {}

\* C3: the reconnect timer armed by the k-th close in a row with no open in
\* between has the delay min(1000 * 2^(k-1), 30000), and reconnectDelay is
\* within 1000..30000 in every state.
C3_BackoffDelay ==
    /\ reconnectDelay \in 1000 .. 30000
    /\ \A t \in reconnectTimers :
          /\ failStreak >= 1
          /\ t.delay = Min(1000 * Pow2(failStreak - 1), 30000)

\* The seventh close in a row without an open: the delay stays at the cap,
\* 1000 * 2^6 being above it.
C3_Witness ==
    /\ failStreak = 7
    /\ \E t \in reconnectTimers : t.delay = 30000

\* C4: the open event sets reconnectDelay to 1000, and the close event of a
\* socket that had opened arms its reconnect timer with a delay of 1000.
C4_OpenResetsBackoff ==
    [][\A c \in Conns :
          /\ sock[c] = "CONNECTING" /\ sock'[c] = "OPEN" => reconnectDelay' = 1000
          /\ WasOpened(c) /\ sock'[c] = "CLOSED" /\ ~stopped =>
                /\ NewReconnectTimers # {}
                /\ \A t \in NewReconnectTimers : t.by = c /\ t.delay = 1000]_vars

\* The third socket or a later one opened and closed: the delay, 2000 or more
\* before that open, is 1000 in the timer its close armed.
C4_Witness ==
    \E t \in reconnectTimers : t.by >= 3 /\ t.delay = 1000 /\ failStreak = 1

\* C5: stop() cancels the pending reconnect timer: once stopped is set, no
\* reconnect timer is armed.
C5_StopCancelsReconnectTimer ==
    stopped => reconnectTimers = {}

\* C6: a probe response that arrives before the deadline of its probe
\* cancels that deadline, whatever the interval and the timeout: on an open
\* socket whose probes have all been answered, no probe deadline is armed.
C6_ResponseCancelsDeadline ==
    \A c \in Conns :
        sock[c] = "OPEN" /\ peer[c].probes = 0 => \A t \in pingTimers : t.conn # c

\* C7: a probe deadline that fires on the open socket its probe was sent on
\* terminates that socket; the close event of a terminated socket arms, absent
\* stop(), the one reconnect timer, whose firing creates one socket.
C7_DeadlineTerminatesAndReconnects ==
    [][/\ \A t \in pingTimers :
             PingTimeoutFire(t) /\ ws = t.conn /\ sock[ws] = "OPEN"
                => sock'[ws] = "TERMINATED"
       /\ \A c \in Conns :
             sock[c] = "TERMINATED" /\ sock'[c] = "CLOSED" /\ ~stopped
                => /\ Cardinality(reconnectTimers') = 1
                   /\ \A t \in reconnectTimers' : t.by = c
       /\ \A t \in reconnectTimers :
             ReconnectFire(t) /\ ~stopped
                => /\ Cardinality(Created') = Cardinality(Created) + 1
                   /\ reconnectTimers' = {}]_vars

\* The deadline of an unanswered probe has fired and terminated the socket
\* the probe was sent on.
C7_Witness ==
    \E c \in Conns :
        /\ sock[c] = "TERMINATED"
        /\ ws = c
        /\ peer[c].probes >= 1
        /\ ~stopped

\* C8: no timer armed during one connection acts on a later one: a keep-alive
\* tick sends its probe on the socket whose open armed the interval, a probe
\* deadline terminates the socket its probe was sent on, and a socket starts
\* with no subscription identifier.
C8_NoLeakAcrossReconnect ==
    /\ [](\A c \in Conns : sock[c] = "CONNECTING" => subscriptionId[c] = Undefined)
    /\ [][/\ \A t \in intervalTimers :
                KeepAliveFire(t) /\ peer' # peer => peer'[t.conn] # peer[t.conn]
          /\ \A t \in pingTimers :
                PingTimeoutFire(t) /\ sock' # sock => sock'[t.conn] # sock[t.conn]]_vars

KnownIds == {"0xA", "0xB", "true"}

\* C9: a notification whose subscription identifier is not the known one is
\* dropped: the step changes nothing, and the callback is not invoked.
C9_MismatchedNotificationDropped ==
    [][\A c \in Conns :
          subscriptionId[c] \in KnownIds
          => \A f \in Notifications :
                /\ f.hasParams
                /\ f.subscription # subscriptionId[c]
                /\ OnMessage(c, f)
                => UNCHANGED vars]_vars

\* The subscription identifier of the open socket is known, a callback is
\* there, and a notification with another identifier and a decodable log can
\* arrive.
C9_Witness ==
    \E c \in Conns, f \in Notifications :
        /\ args.callback
        /\ subscriptionId[c] = "0xA"
        /\ f.subscription = "0xB"
        /\ f.log = "TransferLog"
        /\ Len(calls) < MaxCalls
        /\ ENABLED OnMessage(c, f)

\* C10: while the subscription identifier of a socket is unknown (no response
\* yet, or a response with an empty or absent result), no notification
\* invokes the callback or raises an error.
C10_UnknownIdDropsNotifications ==
    [][\A c \in Conns, f \in Notifications :
          OnMessage(c, f) /\ f.hasParams /\ subscriptionId[c] \in {Undefined, ""}
          => calls' = calls /\ uncaught' = uncaught]_vars

\* C11: with the subscription identifier set by the subscribe response, a
\* notification that carries it and a decodable log appends exactly one
\* entry, the decoded event, at the end of the callback's invocations: one
\* invocation per notification, in the order of arrival.
C11_MatchedNotificationDelivered ==
    [][\A c \in Conns :
          args.callback /\ subscriptionId[c] \in KnownIds
          => \A f \in Notifications :
                /\ f.hasParams
                /\ f.subscription = subscriptionId[c]
                /\ f.log = "TransferLog"
                /\ OnMessage(c, f)
                => calls' = Append(calls, "Transfer")]_vars

\* Two notifications were delivered on a subscribed socket, the decoded
\* event after a null one: the order of arrival is the order of the calls.
C11_Witness ==
    /\ calls = <<"null", "Transfer">>
    /\ \E c \in Conns : sock[c] = "OPEN" /\ subscriptionId[c] = "0xA"

\* C12: once an unexpected-response event has been handled the listener is
\* stopped for good: the flag is set, no reconnect timer is armed by the
\* closed event that follows (none is ever pending), no socket is left that
\* could still open, and no further socket is ever created.
C12_RejectionIsFatal ==
    [][rejected' =>
          /\ stopped'
          /\ ws' = NULL
          /\ reconnectTimers' = {}
          /\ \A c \in Conns : sock'[c] \notin {"CONNECTING", "OPEN"}
          /\ rejected => Created' = Created]_vars

\* The rejected socket has delivered its closed event, after an earlier socket
\* had failed and been replaced: nothing is scheduled and nothing is alive.
C12_Witness ==
    /\ rejected
    /\ Cardinality(Created) >= 2
    /\ \A c \in Created : sock[c] = "CLOSED"
    /\ reconnectTimers = {}

\* C13: stop() is idempotent.  The first call leaves the flag set, the
\* connection handle null and no timer behind a handle; from then on every
\* further call changes no variable at all: it closes no socket, cancels
\* nothing and raises no error.
C13_StopIdempotent ==
    [][Stop =>
          /\ stopped' /\ ws' = NULL
          /\ \A t \in intervalTimers' \cup pingTimers' : ~t.held
          /\ stopped => UNCHANGED vars]_vars

\* After a stop() that closed an open socket with both timers armed, the
\* socket is still closing and the handles still hold their stale values:
\* a second stop() finds something it might act on.
C13_Witness ==
    /\ stopped
    /\ ws = NULL
    /\ \E c \in Conns : sock[c] = "CLOSING"
    /\ pingTimeout = TimerHandle
    /\ keepAliveInterval = TimerHandle
    /\ ENABLED Stop

C15_CloseAfterStopSchedulesNothing ==
    [][/\ (Stop \/ \E c \in Conns : OnUnexpectedResponse(c)) => stopped'
       /\ stopped => stopped'
       /\ \A c \in Conns :
             stopped /\ sock[c] # "CLOSED" /\ sock'[c] = "CLOSED"
             => /\ \A t \in reconnectTimers' : t.by # c
                /\ Cardinality(reconnectTimers') = Cardinality(reconnectTimers)
                /\ reconnectDelay' = reconnectDelay]_vars

\* stop() was called by the owner on a socket that had opened, and the closed
\* event of that socket has been handled: no reconnect was counted since the
\* open and nothing is pending.
C15_Witness ==
    /\ stopped /\ ~rejected
    /\ keepAliveInterval = TimerHandle
    /\ \A c \in Created : sock[c] = "CLOSED"
    /\ failStreak = 0
    /\ reconnectTimers = {}

\* C16: an open socket on which no subscribe response ever sets the
\* subscription identifier is eventually replaced: the deadline of a probe
\* closes it and connect() creates the next socket, unless stop() was called
\* or a handler failed.
C16_UnansweredSubscribeReconnects ==
    \A c \in 1 .. (MaxConn - 1) :
        (sock[c] = "OPEN")
            ~> (subscriptionId[c] # Undefined \/ stopped \/ uncaught \/ sock[c + 1] # "NONE")

\* C17: the remote end of a socket has received exactly one subscribe request
\* from the open on and none before, and the request is sent by the open and
\* by nothing else.  The request carries identifier 1 and the probe
\* identifier 2; a frame with identifier 1 never touches the probe deadline
\* and a frame with identifier 2 never sets the subscription identifier.
C17_OneSubscribePerOpen ==
    [][/\ RequestId = "1" /\ PingId = "2"
       /\ \A c \in Conns :
             /\ peer[c].subscribes = (IF WasOpened(c) THEN 1 ELSE 0)
             /\ peer'[c].subscribes = (IF WasOpened(c)' THEN 1 ELSE 0)
             /\ peer'[c].subscribes > peer[c].subscribes
                => sock[c] = "CONNECTING" /\ sock'[c] = "OPEN"
             /\ sock[c] \in {"OPEN", "CLOSING"} => \A f \in Frames :
                   /\ f.id = RequestId /\ OnMessage(c, f)
                      => pingTimeout' = pingTimeout /\ pingTimers' = pingTimers
                   /\ f.id = PingId /\ OnMessage(c, f)
                      => subscriptionId' = subscriptionId]_vars

\* A second socket is open and subscribed, one request was sent on it, and a
\* probe is waiting for its response.
C17_Witness ==
    \E c \in Conns :
        /\ c >= 2
        /\ sock[c] = "OPEN"
        /\ peer[c].subscribes = 1
        /\ subscriptionId[c] = "0xA"
        /\ peer[c].probes >= 1
        /\ pingTimeout = TimerHandle

\* The state part of C18.
IntervalOnlyWhileOpen ==
    /\ Cardinality(intervalTimers) <= 1
    /\ \A t \in intervalTimers : WasOpened(t.conn) /\ t.held
    /\ (\A c \in Conns : ~WasOpened(c)) => intervalTimers = {}
    /\ stopped => intervalTimers = {}

\* C18: a keep-alive interval is armed only for a socket that has opened and
\* whose closed event is still to come.  While no such socket exists (before
\* the first open, from a closed event to the next open) and after stop(),
\* no interval is armed; at most one is armed at any time; a probe is sent
\* only on an open socket of a listener that is not stopped.
C18_KeepAliveOnlyWhileOpen ==
    [][/\ IntervalOnlyWhileOpen /\ IntervalOnlyWhileOpen'
       /\ \A c \in Conns :
             peer'[c].probes > peer[c].probes
             => sock[c] = "OPEN" /\ ~stopped /\ intervalTimers # {}]_vars

\* A socket that had opened with the interval armed was closed and the next
\* socket is still connecting: the handle is stale and nothing is armed.
C18_Witness ==
    /\ ~stopped
    /\ keepAliveInterval = TimerHandle
    /\ intervalTimers = {}
    /\ \E c \in Conns : c >= 2 /\ sock[c] = "CONNECTING" /\ sock[c - 1] = "CLOSED"

\* C19: a notification with the known subscription identifier whose log the
\* decode function maps to null invokes the callback exactly once, with
\* null; no error leaves the handler and no other variable changes.
C19_NullEventDelivered ==
    [][\A c \in Conns :
          args.callback /\ subscriptionId[c] \in KnownIds
          => \A f \in Notifications :
                /\ f.hasParams
                /\ f.subscription = subscriptionId[c]
                /\ f.log = "UnknownLog"
                /\ OnMessage(c, f)
                => /\ calls' = Append(calls, "null")
                   /\ uncaught' = FALSE
                   /\ UNCHANGED <<args, ws, pingTimeout, keepAliveInterval, stopped,
                                  reconnectDelay, subscriptionId, sock, intervalTimers,
                                  pingTimers, reconnectTimers, peer, failStreak,
                                  rejected>>]_vars

\* After a decoded event a null one was delivered on the subscribed socket,
\* which is still open.
C19_Witness ==
    /\ calls = <<"Transfer", "null">>
    /\ ~uncaught
    /\ \E c \in Conns : sock[c] = "OPEN" /\ subscriptionId[c] = "0xA"

\* C20: in every reachable state the sockets whose closed event is still to
\* come and the pending reconnect timers number at most one together: never
\* two live sockets, never a reconnect timer next to a live socket.
C20_OneConnectionOrOneTimer ==
    Cardinality({c \in Conns : Alive(c)}) + Cardinality(reconnectTimers) <= 1

\* Two sockets have come and gone, the reconnect after the second is pending
\* and no socket is alive.
C20_Witness ==
    /\ Cardinality(Closed) >= 2
    /\ Cardinality(reconnectTimers) = 1
    /\ \A c \in Conns : ~Alive(c)
    /\ ws = NULL

====
